---- MODULE Spec2Model ----
(***************************************************************************)
(* Discovery scanners of the Trancendos repository.                        *)
(*                                                                         *)
(*   scripts/discovery/scan-repositories.py  RepositoryScanner, main       *)
(*   scripts/discovery/scan-platforms.py     PlatformScanner, main         *)
(*                                                                         *)
(* One run is one of three programs:                                       *)
(*   "classify"   one call of RepositoryScanner.classify_repository        *)
(*   "repos"      main() of scan-repositories.py                           *)
(*   "platforms"  main() of scan-platforms.py                              *)
(***************************************************************************)
EXTENDS Integers, Sequences, FiniteSets, TLC

VARIABLES
    program,        \* which program this run is
    pc,             \* position of the run
    repo,           \* classify: the repository passed to classify_repository
    label,          \* classify: the value classify_repository returned
    token,          \* repos: GITHUB_TOKEN in the environment
    max_repos,      \* repos: args.max_repos
    listing,        \* repos: ids user.get_repos() yields, in order
    count,          \* repos: the loop counter of scan_all_repositories
    scan_results,   \* repos: RepositoryScanner.scan_results
    log,            \* repos: one console line per scanned repository
    fetch_failed,   \* repos: ids for which a supplementary fetch raised
    enum_error,     \* repos: the enumeration itself raised
    env,            \* platforms: the three credentials in the environment
    nenum_error,    \* platforms: a notion.search call raised
    platforms,      \* platforms: PlatformScanner.scan_results["platforms"]
    saved           \* what save_results wrote

vars == << program, pc, repo, label, token, max_repos, listing, count,
           scan_results, log, fetch_failed, enum_error, env, nenum_error,
           platforms, saved >>

\* ------------------------------------------------------------------ bounds
MaxListing == 3     \* most repositories one enumeration yields
MaxLimit == 2       \* largest --max-repos tried

\* --------------------------------------------------------- program values
NoCommitDays == 999
ActiveDays == 30
ActiveIssues == 5
ArchiveDays == 180
PageSummaryLimit == 50

None == "None"

Min(a, b) == IF a <= b THEN a ELSE b

Labels == {"CORE", "ACTIVE", "CONSOLIDATE", "ARCHIVE", "DEPRECATE"}

core_repos == {"trancendos-ecosystem", "Luminous-MastermindAI",
               "Trancendos-Core", "compliance-framework",
               "platform-sync-buffer", "Trancendos"}

\* An environment variable is unset, set to the empty string, or set.
CredValues == {"unset", "empty", "set"}

\* Python truthiness of os.environ.get(name).
Truthy(v) == v = "set"

\* ------------------------------------------------- classify_repository
\* The latest-commit lookup: it raises, the repository has no commits, or
\* it gives the age of the latest commit in days.
days_since_commit_zero(r) ==
    IF r.lookup = "ok" THEN r.days ELSE 0

days_since_commit(r) ==
    IF r.lookup = "raises" THEN NoCommitDays
    ELSE IF r.lookup = "empty" THEN NoCommitDays
    ELSE r.days

classify_repository_fork_first(r) ==
    LET d == days_since_commit(r) IN
    IF r.name \in core_repos THEN "CORE"
    ELSE IF r.fork \/ r.size = 0 THEN "DEPRECATE"
    ELSE IF d < ActiveDays \/ r.open_issues_count > ActiveIssues THEN "ACTIVE"
    ELSE IF d > ArchiveDays /\ r.size > 0 THEN "ARCHIVE"
    ELSE "CONSOLIDATE"

classify_repository(r) ==
    LET d == days_since_commit(r) IN
    IF r.name \in core_repos THEN "CORE"
    ELSE IF d < ActiveDays \/ r.open_issues_count > ActiveIssues THEN "ACTIVE"
    ELSE IF d > ArchiveDays /\ r.size > 0 THEN "ARCHIVE"
    ELSE IF r.fork \/ r.size = 0 THEN "DEPRECATE"
    ELSE "CONSOLIDATE"

\* Repositories handed to one classify_repository call.
ClassifyNames == {"Trancendos", "platform-sync-buffer", "trancendos", "alpha"}
ClassifyDays == {-1, 0, 5, 29, 30, 31, 179, 180, 181, 998, 999, 1000}
ClassifyIssues == {0, 5, 6, 7}
ClassifySizes == {0, 1, 5}

ClassifyInputs ==
    { [id |-> 0, name |-> n, lookup |-> l, days |-> d,
       open_issues_count |-> i, size |-> s, fork |-> f] :
        n \in ClassifyNames, l \in {"ok"}, d \in ClassifyDays,
        i \in ClassifyIssues, s \in ClassifySizes, f \in BOOLEAN }
    \cup
    { [id |-> 0, name |-> n, lookup |-> l, days |-> 0,
       open_issues_count |-> i, size |-> s, fork |-> f] :
        n \in ClassifyNames, l \in {"raises", "empty"},
        i \in ClassifyIssues, s \in ClassifySizes, f \in BOOLEAN }

NoRepo == [id |-> 0, name |-> "", lookup |-> "empty", days |-> 0,
           open_issues_count |-> 0, size |-> 0, fork |-> FALSE]

\* ------------------------------------------------------ scan_repository
\* What the platform answers to the supplementary calls of one
\* scan_repository: get_workflows is wrapped in a bare except; the first of
\* get_languages, get_branches, get_tags, get_topics that raises decides
\* the call, with a GithubException or with any other exception.
FailPoints == {"languages", "branches", "tags", "topics"}
Fetches ==
    { [workflows |-> w, failAt |-> "none", exc |-> "none"] :
        w \in {"ok", "raises"} }
    \cup
    { [workflows |-> w, failAt |-> p, exc |-> e] :
        w \in {"ok", "raises"}, p \in FailPoints,
        e \in {"GithubException", "Exception"} }

\* "data": the record is returned; "None": a GithubException was caught;
\* "raise": another exception leaves scan_repository.
scan_return(f) ==
    IF f.failAt = "none" THEN "data"
    ELSE IF f.exc = "GithubException" THEN None
    ELSE "raise"

repo_data(r, f) ==
    [id |-> r.id, name |-> r.name,
     classification |-> classify_repository(r),
     fork |-> r.fork, size_kb |-> r.size,
     open_issues |-> r.open_issues_count,
     workflows |-> IF f.workflows = "ok" THEN "listed" ELSE "empty"]

scan_repository_prepend(sr, r, f) ==
    IF f.failAt # "none" THEN sr
    ELSE LET c == classify_repository(r) IN
         [sr EXCEPT !.repositories = << repo_data(r, f) >> \o @,
                    !.classifications[c] = Append(@, r.name)]

scan_repository_one_bucket(sr, r, f) ==
    IF f.failAt # "none" THEN sr
    ELSE [sr EXCEPT !.repositories = Append(@, repo_data(r, f)),
                    !.classifications["CONSOLIDATE"] = Append(@, r.name)]

scan_repository_early_append(sr, r, f) ==
    IF f.failAt \in {"languages", "branches", "tags"} THEN sr
    ELSE IF f.failAt = "topics"
         THEN [sr EXCEPT !.repositories = Append(@, repo_data(r, f))]
    ELSE LET c == classify_repository(r) IN
         [sr EXCEPT !.repositories = Append(@, repo_data(r, f)),
                    !.classifications[c] = Append(@, r.name)]

\* scan_results after scan_repository(r) with the answers f.
scan_repository(sr, r, f) ==
    IF f.failAt # "none" THEN sr
    ELSE LET c == classify_repository(r) IN
         [sr EXCEPT !.repositories = Append(@, repo_data(r, f)),
                    !.classifications[c] = Append(@, r.name)]

\* Repositories the enumeration yields during a scan.
ScanRepoKinds ==
    { [name |-> "Trancendos", lookup |-> "ok", days |-> 400,
       open_issues_count |-> 0, size |-> 0, fork |-> TRUE],
      [name |-> "alpha", lookup |-> "ok", days |-> 5,
       open_issues_count |-> 0, size |-> 5, fork |-> TRUE],
      [name |-> "alpha", lookup |-> "raises", days |-> 0,
       open_issues_count |-> 0, size |-> 5, fork |-> FALSE],
      [name |-> "alpha", lookup |-> "ok", days |-> 90,
       open_issues_count |-> 0, size |-> 0, fork |-> FALSE],
      [name |-> "beta", lookup |-> "ok", days |-> 90,
       open_issues_count |-> 0, size |-> 5, fork |-> FALSE] }

WithId(k, i) ==
    [id |-> i, name |-> k.name, lookup |-> k.lookup, days |-> k.days,
     open_issues_count |-> k.open_issues_count, size |-> k.size,
     fork |-> k.fork]

\* The ids the enumeration yields: n repositories, oldest id first or
\* newest id first.
Listings ==
    { [i \in 1 .. n |-> i] : n \in 0 .. MaxListing } \cup
    { [i \in 1 .. n |-> n + 1 - i] : n \in 0 .. MaxListing }

\* args.max_repos: absent, or the integer given on the command line.
MaxReposValues ==
    { [given |-> FALSE, n |-> 0] } \cup
    { [given |-> TRUE, n |-> k] : k \in -1 .. MaxLimit }

\* Python truthiness of max_repos.
max_repos_truthy(m) == m.given /\ m.n # 0

loop_break(m, c) == max_repos_truthy(m) /\ c >= m.n

InitResults ==
    [total_repos |-> 0, repositories |-> << >>,
     classifications |-> [l \in Labels |-> << >>]]

\* ---------------------------------------------------- scan_all_platforms
PlatformNames == {"notion", "linear", "jira"}

NotionResponses ==
    { [kind |-> k, pages |-> 0, databases |-> 0] :
        k \in {"ImportError", "pages_raises", "databases_raises"} }
    \cup
    { [kind |-> "ok", pages |-> p, databases |-> d] :
        p \in {0, 2, PageSummaryLimit + 1}, d \in {0, 1} }

scan_notion(resp) ==
    IF resp.kind = "ImportError"
        THEN [status |-> "skipped", reason |-> "notion-client not installed"]
    ELSE IF resp.kind \in {"pages_raises", "databases_raises"}
        THEN [status |-> "error", error |-> resp.kind]
    ELSE [status |-> "success", total_pages |-> resp.pages,
          total_databases |-> resp.databases,
          pages |-> Min(resp.pages, PageSummaryLimit),
          databases |-> resp.databases]

scan_linear == [status |-> "not_implemented"]

scan_jira == [status |-> "not_implemented"]

Put(f, k, v) == [x \in DOMAIN f \cup {k} |-> IF x = k THEN v ELSE f[x]]

NoPlatforms == [x \in {} |-> None]

scan_all_platforms(e, resp) ==
    LET p1 == IF Truthy(e.NOTION_API_KEY)
              THEN Put(NoPlatforms, "notion", scan_notion(resp))
              ELSE NoPlatforms
        p2 == IF Truthy(e.LINEAR_API_KEY)
              THEN Put(p1, "linear", scan_linear) ELSE p1
        p3 == IF Truthy(e.JIRA_API_TOKEN)
              THEN Put(p2, "jira", scan_jira) ELSE p2
    IN p3

Envs == [NOTION_API_KEY : CredValues, LINEAR_API_KEY : CredValues,
         JIRA_API_TOKEN : CredValues]

NoEnv == [NOTION_API_KEY |-> "unset", LINEAR_API_KEY |-> "unset",
          JIRA_API_TOKEN |-> "unset"]

\* -------------------------------------------------------------- the runs
InitClassify ==
    /\ program = "classify" /\ pc = "start"
    /\ repo \in ClassifyInputs /\ label = None
    /\ token = "unset" /\ max_repos = [given |-> FALSE, n |-> 0]
    /\ listing = << >> /\ count = 0 /\ scan_results = InitResults
    /\ log = << >> /\ fetch_failed = {} /\ enum_error = FALSE
    /\ env = NoEnv /\ nenum_error = FALSE /\ platforms = NoPlatforms
    /\ saved = None

InitRepos ==
    /\ program = "repos" /\ pc = "start"
    /\ repo = NoRepo /\ label = None
    /\ token \in CredValues /\ max_repos \in MaxReposValues
    /\ listing \in Listings /\ count = 0 /\ scan_results = InitResults
    /\ log = << >> /\ fetch_failed = {} /\ enum_error = FALSE
    /\ env = NoEnv /\ nenum_error = FALSE /\ platforms = NoPlatforms
    /\ saved = None

InitPlatforms ==
    /\ program = "platforms" /\ pc = "start"
    /\ repo = NoRepo /\ label = None
    /\ token = "unset" /\ max_repos = [given |-> FALSE, n |-> 0]
    /\ listing = << >> /\ count = 0 /\ scan_results = InitResults
    /\ log = << >> /\ fetch_failed = {} /\ enum_error = FALSE
    /\ env \in Envs /\ nenum_error = FALSE /\ platforms = NoPlatforms
    /\ saved = None

Init == InitClassify \/ InitRepos \/ InitPlatforms

\* classify_repository(repo)
Classify ==
    /\ program = "classify" /\ pc = "start"
    /\ label' = classify_repository(repo)
    /\ pc' = "done"
    /\ UNCHANGED << program, repo, token, max_repos, listing, count,
                    scan_results, log, fetch_failed, enum_error, env,
                    nenum_error, platforms, saved >>

\* main of scan-repositories.py up to the scan: no token, exit(1).
MainNoToken ==
    /\ program = "repos" /\ pc = "start"
    /\ ~ Truthy(token)
    /\ pc' = "exit1"
    /\ UNCHANGED << program, repo, label, token, max_repos, listing, count,
                    scan_results, log, fetch_failed, enum_error, env,
                    nenum_error, platforms, saved >>

\* main constructs the scanner and enters scan_all_repositories.
MainScan ==
    /\ program = "repos" /\ pc = "start"
    /\ Truthy(token)
    /\ pc' = "scanning"
    /\ count' = 0
    /\ UNCHANGED << program, repo, label, token, max_repos, listing,
                    scan_results, log, fetch_failed, enum_error, env,
                    nenum_error, platforms, saved >>

\* The enumeration raises while the loop asks it for the next repository:
\* nothing catches it, in scan_all_repositories or in main.
EnumRaises ==
    /\ program = "repos" /\ pc = "scanning"
    /\ enum_error' = TRUE
    /\ pc' = "crashed"
    /\ UNCHANGED << program, repo, label, token, max_repos, listing, count,
                    scan_results, log, fetch_failed, env, nenum_error,
                    platforms, saved >>

\* One iteration of the loop: scan_repository returns a record or None.
ScanRepo ==
    /\ program = "repos" /\ pc = "scanning"
    /\ count < Len(listing)
    /\ ~ loop_break(max_repos, count)
    /\ \E k \in ScanRepoKinds, f \in Fetches :
        LET r == WithId(k, listing[count + 1]) IN
        /\ scan_return(f) # "raise"
        /\ scan_results' = scan_repository(scan_results, r, f)
        /\ log' = Append(log, [id |-> r.id, result |-> scan_return(f)])
        /\ fetch_failed' =
            IF f.workflows = "raises" \/ f.failAt # "none"
            THEN fetch_failed \cup {r.id} ELSE fetch_failed
    /\ count' = count + 1
    /\ UNCHANGED << program, pc, repo, label, token, max_repos, listing,
                    enum_error, env, nenum_error, platforms, saved >>

\* One iteration of the loop: an exception that is no GithubException
\* leaves scan_repository, scan_all_repositories and main.
ScanRepoRaises ==
    /\ program = "repos" /\ pc = "scanning"
    /\ count < Len(listing)
    /\ ~ loop_break(max_repos, count)
    /\ \E k \in ScanRepoKinds, f \in Fetches :
        LET r == WithId(k, listing[count + 1]) IN
        /\ scan_return(f) = "raise"
        /\ scan_results' = scan_repository(scan_results, r, f)
        /\ fetch_failed' = fetch_failed \cup {r.id}
    /\ pc' = "crashed"
    /\ UNCHANGED << program, repo, label, token, max_repos, listing, count,
                    log, enum_error, env, nenum_error, platforms, saved >>

\* The loop breaks on max_repos; total_repos is set.
ScanBreak ==
    /\ program = "repos" /\ pc = "scanning"
    /\ count < Len(listing)
    /\ loop_break(max_repos, count)
    /\ scan_results' = [scan_results EXCEPT !.total_repos = count]
    /\ pc' = "scanned"
    /\ UNCHANGED << program, repo, label, token, max_repos, listing, count,
                    log, fetch_failed, enum_error, env, nenum_error,
                    platforms, saved >>

\* The enumeration is exhausted; total_repos is set.
ScanExhausted ==
    /\ program = "repos" /\ pc = "scanning"
    /\ count = Len(listing)
    /\ scan_results' = [scan_results EXCEPT !.total_repos = count]
    /\ pc' = "scanned"
    /\ UNCHANGED << program, repo, label, token, max_repos, listing, count,
                    log, fetch_failed, enum_error, env, nenum_error,
                    platforms, saved >>

\* RepositoryScanner.save_results
SaveRepos ==
    /\ program = "repos" /\ pc = "scanned"
    /\ saved' = scan_results
    /\ pc' = "saved"
    /\ UNCHANGED << program, repo, label, token, max_repos, listing, count,
                    scan_results, log, fetch_failed, enum_error, env,
                    nenum_error, platforms >>

\* PlatformScanner.scan_all_platforms
ScanAllPlatforms ==
    /\ program = "platforms" /\ pc = "start"
    /\ \E resp \in NotionResponses :
        /\ platforms' = scan_all_platforms(env, resp)
        /\ nenum_error' = ( Truthy(env.NOTION_API_KEY)
                            /\ resp.kind \in {"pages_raises",
                                              "databases_raises"} )
    /\ pc' = "scanned"
    /\ UNCHANGED << program, repo, label, token, max_repos, listing, count,
                    scan_results, log, fetch_failed, enum_error, env,
                    saved >>

\* PlatformScanner.save_results
SavePlatforms ==
    /\ program = "platforms" /\ pc = "scanned"
    /\ saved' = platforms
    /\ pc' = "saved"
    /\ UNCHANGED << program, repo, label, token, max_repos, listing, count,
                    scan_results, log, fetch_failed, enum_error, env,
                    nenum_error, platforms >>

Next ==
    \/ Classify
    \/ MainNoToken
    \/ MainScan
    \/ EnumRaises
    \/ ScanRepo
    \/ ScanRepoRaises
    \/ ScanBreak
    \/ ScanExhausted
    \/ SaveRepos
    \/ ScanAllPlatforms
    \/ SavePlatforms

Spec == Init /\ [][Next]_vars

\* ================================================================ claims
Finished == pc \in {"scanned", "saved"}

Classified == program = "classify" /\ pc = "done"

NonCore == repo.name \notin core_repos

\* The age of the latest commit is known and below 30 days.
Recent == repo.lookup = "ok" /\ repo.days < 30

\* Unknown activity counts as maximal staleness.
Stale == repo.lookup # "ok" \/ repo.days > 180

Rule3 == Recent \/ repo.open_issues_count > 5
Rule4 == Stale /\ repo.size > 0
Rule5 == repo.fork \/ repo.size = 0

\* C1: classify_repository returns the label of the first matching rule in
\* the order allow-list -> CORE, days < 30 or open issues > 5 -> ACTIVE,
\* days > 180 and size > 0 -> ARCHIVE, fork or size 0 -> DEPRECATE,
\* otherwise CONSOLIDATE; the label is always a defined one, 30 days is not
\* ACTIVE by recency, 6 open issues is ACTIVE, a non-CORE fork of 5 days is
\* ACTIVE.
C1_FirstMatchWins ==
    Classified =>
        /\ label \in Labels
        /\ (~ NonCore) => label = "CORE"
        /\ (NonCore /\ Rule3) => label = "ACTIVE"
        /\ (NonCore /\ ~ Rule3 /\ Rule4) => label = "ARCHIVE"
        /\ (NonCore /\ ~ Rule3 /\ ~ Rule4 /\ Rule5) => label = "DEPRECATE"
        /\ (NonCore /\ ~ Rule3 /\ ~ Rule4 /\ ~ Rule5)
                => label = "CONSOLIDATE"
        /\ (NonCore /\ repo.lookup = "ok" /\ repo.days = 30
                /\ repo.open_issues_count <= 5) => label # "ACTIVE"
        /\ (NonCore /\ repo.open_issues_count = 6) => label = "ACTIVE"
        /\ (NonCore /\ repo.fork /\ repo.lookup = "ok" /\ repo.days = 5)
                => label = "ACTIVE"

C1_Witness ==
    /\ Classified /\ NonCore
    /\ repo.fork /\ repo.lookup = "ok" /\ repo.days = 5
    /\ repo.open_issues_count = 0 /\ repo.size = 0
    /\ label = "ACTIVE"

\* C2: a repository whose latest-commit lookup fails or that has no
\* commits, not in the allow-list and with at most 5 open issues, is never
\* ACTIVE; it is classified as a maximally stale one (ARCHIVE if it has
\* content), never as one of zero days.
C2_UnknownActivityNotActive ==
    (Classified /\ repo.lookup \in {"raises", "empty"} /\ NonCore
        /\ repo.open_issues_count <= 5) =>
            /\ label # "ACTIVE"
            /\ repo.size > 0 => label = "ARCHIVE"

C2_Witness ==
    /\ Classified /\ NonCore
    /\ repo.lookup = "raises" /\ repo.open_issues_count = 5
    /\ repo.size > 0 /\ label = "ARCHIVE"

Appears(i) ==
    \E j \in 1 .. Len(scan_results.repositories) :
        /\ scan_results.repositories[j].id = i
        /\ scan_results.repositories[j].classification \in Labels

\* C3: when a supplementary fetch of one repository fails and the
\* enumeration succeeds, the result status is partial and the repository
\* still appears in the result with a valid classification.
C3_PartialFailureContained ==
    (program = "repos" /\ Finished /\ fetch_failed # {}) =>
        /\ "status" \in DOMAIN scan_results
        /\ scan_results.status = "partial"
        /\ \A i \in fetch_failed : Appears(i)

Recorded(i) ==
    \/ Appears(i)
    \/ /\ "failures" \in DOMAIN scan_results
       /\ \E j \in 1 .. Len(scan_results.failures) :
            scan_results.failures[j].id = i

\* C4: the result of a completed scan holds exactly one outcome, a record
\* or a recorded failure, for every repository the loop processed; a
\* repository that failed is not left out of the result.
C4_EveryOutcomeRecorded ==
    (program = "repos" /\ Finished) =>
        /\ \A k \in 1 .. count : Recorded(listing[k])
        /\ Len(scan_results.repositories) <= count

Credential(p) ==
    IF p = "notion" THEN env.NOTION_API_KEY
    ELSE IF p = "linear" THEN env.LINEAR_API_KEY
    ELSE env.JIRA_API_TOKEN

\* C5: after scan_all_platforms the snapshot has an entry for each of
\* notion, linear and jira, and the entry of a platform whose credential is
\* absent has status skipped:no-credential.
C5_EveryPlatformHasStatus ==
    (program = "platforms" /\ Finished) =>
        /\ DOMAIN platforms = PlatformNames
        /\ \A p \in PlatformNames :
            ~ Truthy(Credential(p)) =>
                platforms[p].status = "skipped:no-credential"

\* C6: when the enumeration call of a platform fails, the run still
\* completes, that platform's result has an error status and no outcomes,
\* and the results of the other platforms are what they are otherwise.
C6_EnumerationFailureContained ==
    /\ (program = "platforms" /\ nenum_error) =>
        /\ Finished
        /\ platforms["notion"].status = "error"
        /\ "error" \in DOMAIN platforms["notion"]
        /\ "pages" \notin DOMAIN platforms["notion"]
        /\ Truthy(env.LINEAR_API_KEY) => platforms["linear"] = scan_linear
        /\ Truthy(env.JIRA_API_TOKEN) => platforms["jira"] = scan_jira
    /\ (program = "repos" /\ enum_error) =>
        /\ pc # "crashed"
        /\ "status" \in DOMAIN scan_results
        /\ scan_results.repositories = << >>

\* C7: with an integer limit n >= 0 the scan processes min(n, M) of the M
\* repositories enumerated, and all M when no limit is given.
C7_LimitRespected ==
    (program = "repos" /\ Finished) =>
        /\ (max_repos.given /\ max_repos.n >= 0) =>
            /\ scan_results.total_repos = Min(max_repos.n, Len(listing))
            /\ Len(log) = Min(max_repos.n, Len(listing))
        /\ (~ max_repos.given) =>
            /\ scan_results.total_repos = Len(listing)
            /\ Len(log) = Len(listing)

Pos(i) == CHOOSE k \in 1 .. Len(listing) : listing[k] = i

\* C8: two repositories that both appear in the result's repositories
\* sequence appear there in the order in which they were enumerated.
C8_ResultOrderIsEnumerationOrder ==
    program = "repos" =>
        \A a, b \in 1 .. Len(scan_results.repositories) :
            LET ra == scan_results.repositories[a]
                rb == scan_results.repositories[b]
            IN  /\ ra.id \in { listing[k] : k \in 1 .. Len(listing) }
                /\ (a < b) <=> (Pos(ra.id) < Pos(rb.id))

C8_Witness ==
    /\ program = "repos" /\ Finished
    /\ Len(listing) = 3 /\ listing[1] > listing[2]
    /\ Len(scan_results.repositories) = 2
    /\ scan_results.repositories[1].id = listing[1]
    /\ scan_results.repositories[2].id = listing[3]
    /\ log[2].result = None

NamesOf(l) ==
    LET Is(r) == r.classification = l
        sel == SelectSeq(scan_results.repositories, Is)
    IN  [k \in 1 .. Len(sel) |-> sel[k].name]

RECURSIVE SumLen(_)
SumLen(ls) ==
    IF ls = {} THEN 0
    ELSE LET l == CHOOSE x \in ls : TRUE
         IN  Len(scan_results.classifications[l]) + SumLen(ls \ {l})

NoneLogged == \E k \in 1 .. Len(log) : log[k].result = None

\* C9: every record of repositories has its name in the classifications
\* list of its own classification and in no other, so the five lists
\* together are as long as repositories; after scan_all_repositories
\* total_repos is at least that length, and equal to it exactly when no
\* repository failed.
C9_BucketsMatchRepositories ==
    program = "repos" =>
        /\ DOMAIN scan_results.classifications = Labels
        /\ \A l \in Labels : scan_results.classifications[l] = NamesOf(l)
        /\ SumLen(Labels) = Len(scan_results.repositories)
        /\ Finished =>
            /\ scan_results.total_repos >= Len(scan_results.repositories)
            /\ (scan_results.total_repos = Len(scan_results.repositories))
                    <=> ~ NoneLogged

C9_Witness ==
    /\ program = "repos" /\ Finished
    /\ NoneLogged
    /\ Len(scan_results.repositories) = 2
    /\ scan_results.total_repos = 3
    /\ scan_results.classifications["ACTIVE"] = << "alpha" >>
    /\ scan_results.classifications["DEPRECATE"] = << "alpha" >>

\* C10: a scan_repository call that returns None leaves repositories and
\* every classifications list as they were, and no call adds to one of
\* them without the other.
C10_FailedScanChangesNothing ==
    [][ /\ (Len(log') = Len(log) + 1 /\ log'[Len(log')].result = None) =>
            /\ scan_results'.repositories = scan_results.repositories
            /\ scan_results'.classifications = scan_results.classifications
        /\ (scan_results'.repositories # scan_results.repositories)
            <=> (scan_results'.classifications
                    # scan_results.classifications) ]_vars

C10_Witness ==
    /\ program = "repos"
    /\ Len(log) = 2
    /\ log[1].result = "data" /\ log[2].result = None
    /\ Len(scan_results.repositories) = 1
    /\ fetch_failed = {listing[2]}
====
